---- MODULE Spec2Model ----
(***************************************************************************)
(* Model of the teams-rag-bot repository: the ingestion pipeline of        *)
(* ingest.py (chunk_text, the extractors, ingest_all_blobs) and the        *)
(* question-answering path of app.py (search_top_k, answer_with_rag,       *)
(* on_message_activity, the /ingest endpoint).                             *)
(*                                                                         *)
(* Texts are sequences of one-character strings.  External services (the   *)
(* blob container, the embedding service, the search index, the chat       *)
(* model) are modelled by their interface: a call either returns a value   *)
(* or raises, and the code has no try/except, so a raise ends the handler. *)
(***************************************************************************)
EXTENDS Integers, Sequences, FiniteSets, TLC

VARIABLES
    \* ---- chunk_text (ingest.py:45-59): arguments, locals, position
    c_pc,          \* "idle" | "call" | "loop" | "done"
    c_raw,         \* the text argument as passed
    max_chars,     \* argument max_chars
    overlap,       \* argument overlap
    text,          \* local text after text.strip()
    start,         \* local start
    end,           \* local end
    chunks,        \* local chunks
    steps,         \* number of loop bodies executed (bookkeeping)
    \* ---- the blob container and the search index (external state)
    container,     \* the blobs list_blobs() yields, in order
    index,         \* the documents of the search index, keyed by id
    \* ---- ingest_all_blobs (ingest.py:93-132) and POST /ingest (app.py:129-132)
    i_pc,          \* "idle" | "blobs" | "pdf" | "chunking" | "embed" | "upload" | "done" | "raised"
    i_err,         \* what raised: "none" | "extract" | "embed" | "upload"
    i_blob,        \* position of the for loop over list_blobs()
    i_page,        \* page_no of extract_from_pdf's loop
    docs,          \* local docs of extract_from_pdf
    all_docs,      \* local all_docs
    search_docs,   \* local search_docs
    i_off,         \* loop variable i of the upload loop
    uploads,       \* the batches passed to upload_documents, in call order
    results,       \* the result each upload_documents call returned (succeeded flags)
    printed,       \* the success counts printed, one per batch
    response,      \* the JSON body POST /ingest answers with
    uuid_count,    \* how many uuid4() values have been drawn
    runs,          \* ingestion runs started
    rejects,       \* upload calls in which the index rejected a record
    aborts,        \* ingestion runs ended by an exception
    index0,        \* the index as it was when the current run started
    \* ---- POST /api/messages (app.py:107-127): on_message_activity and what it calls
    b_pc,          \* "idle" | "recv" | "embed" | "search" | "chat" | "reply" | "done" | "raised"
    b_err,         \* what raised: "none" | "embed" | "search" | "chat"
    activity,      \* the inbound activity: its type and its text (or None)
    question,      \* local question
    hits,          \* the results the index returned, in its ranking order
    contexts,      \* contexts of search_top_k
    sources,       \* sources of search_top_k
    prompt,        \* the prompt sent to the chat model
    src_lines,     \* local src_lines of answer_with_rag
    final_answer,  \* local final_answer
    sent,          \* the activities sent back to the user, in order
    http_status,   \* status of the HTTP response (0 while the request is open)
    embed_calls,   \* embedding calls made for the current message
    search_calls,  \* index queries made for the current message
    chat_calls,    \* chat-model calls made for the current message
    msgs           \* messages received

chunkVars == <<c_pc, c_raw, max_chars, overlap, text, start, end, chunks, steps>>
ingestVars == <<i_pc, i_err, i_blob, i_page, docs, all_docs, search_docs, i_off, uploads,
                results, printed, response, uuid_count, runs, rejects, aborts, index0>>
botVars == <<b_pc, b_err, activity, question, hits, contexts, sources, prompt, src_lines,
             final_answer, sent, http_status, embed_calls, search_calls, chat_calls, msgs>>
vars == <<chunkVars, container, index, ingestVars, botVars>>

\* -------------------------------------------------------------- bounds
MaxLen == 3
MaxChars == 3
MaxSteps == 6
MaxBlobs == 2
MaxRuns == 2
MaxRejects == 1
MaxDocs == 6
MaxMsgs == 2

\* --------------------------------------------------- program constants
DEFAULT_MAX_CHARS == 1000
DEFAULT_OVERLAP == 150
batch_size == 200
TOP_K == 5
FOOTER_SOURCES == 3

\* ------------------------------------------------------------- helpers
Min(a, b) == IF a < b THEN a ELSE b
Max(a, b) == IF a > b THEN a ELSE b

Alphabet == {" ", "a", "b"}
IsSpace(ch) == ch \in {" ", "\n"}

\* Python's s[lo:hi] for 0 <= lo, on a sequence indexed from 1.
Slice(s, lo, hi) == SubSeq(s, lo + 1, Min(hi, Len(s)))

\* str.strip(): drop the leading and the trailing whitespace.
RECURSIVE LStrip(_)
LStrip(s) == IF s # <<>> /\ IsSpace(Head(s)) THEN LStrip(Tail(s)) ELSE s
RECURSIVE RStrip(_)
RStrip(s) == IF s # <<>> /\ IsSpace(s[Len(s)]) THEN RStrip(SubSeq(s, 1, Len(s) - 1)) ELSE s
Strip(s) == RStrip(LStrip(s))

\* The Python string a sequence of characters (or of longer pieces) spells.
RECURSIVE Text(_)
Text(s) == IF s = <<>> THEN "" ELSE Head(s) \o Text(Tail(s))

SeqsUpTo(S, n) == UNION {[1..k -> S] : k \in 0..n}

ShortTexts == SeqsUpTo(Alphabet, MaxLen)
LongLens == {DEFAULT_MAX_CHARS - 1, DEFAULT_MAX_CHARS, DEFAULT_MAX_CHARS + 1,
             2 * (DEFAULT_MAX_CHARS - DEFAULT_OVERLAP) + DEFAULT_OVERLAP + 1}
LongTexts == {[i \in 1..n |-> IF i % 2 = 0 THEN "a" ELSE "b"] : n \in LongLens}
DefaultParams == <<DEFAULT_MAX_CHARS, DEFAULT_OVERLAP>>
SmallParams == {p \in (1..MaxChars) \X (0..(MaxChars - 1)) : p[2] < p[1]}
\* The calls the chunker is checked on: every short text with every small
\* 0 <= overlap < max_chars and with the defaults, the long texts with
\* max_chars = 1000.
ChunkCalls ==
    (ShortTexts \X (SmallParams \cup {DefaultParams, <<DEFAULT_MAX_CHARS, 0>>}))
    \cup (LongTexts \X {DefaultParams, <<DEFAULT_MAX_CHARS, 0>>})

\* ---------------------------------------------------------- chunk_text
ChunkIdle ==
    /\ c_pc = "idle" /\ c_raw = <<>> /\ max_chars = DEFAULT_MAX_CHARS
    /\ overlap = DEFAULT_OVERLAP /\ text = <<>> /\ start = 0 /\ end = 0
    /\ chunks = <<>> /\ steps = 0

\* A call chunk_text(raw, m, o) is placed.
ChunkCall(raw, m, o) ==
    /\ c_pc' = "call" /\ c_raw' = raw /\ max_chars' = m /\ overlap' = o
    /\ text' = <<>> /\ start' = 0 /\ end' = 0 /\ chunks' = <<>> /\ steps' = 0

\* Lines 46-50: strip, return [] on an empty text, else enter the loop.
ChunkEnter ==
    /\ c_pc = "call"
    /\ text' = Strip(c_raw)
    /\ chunks' = <<>>
    /\ start' = 0
    /\ c_pc' = IF Strip(c_raw) = <<>> THEN "done" ELSE "loop"
    /\ UNCHANGED <<c_raw, max_chars, overlap, end, steps>>
    /\ UNCHANGED <<container, index, ingestVars, botVars>>

NextStart(e) == Max(e - overlap, 0)

\* Lines 51-58: one pass of the while loop.  The loop test start < len(text)
\* holds on entry (text is non-empty, start = 0) and after every pass that
\* does not break, so the loop is only ever left through the break.
ChunkLoop ==
    /\ c_pc = "loop"
    /\ start < Len(text)
    /\ steps < MaxSteps
    /\ LET e == Min(Len(text), start + max_chars)
           s == NextStart(e)
       IN  /\ end' = e
           /\ chunks' = Append(chunks, Slice(text, start, e))
           /\ start' = s
           /\ c_pc' = IF s >= Len(text) THEN "done" ELSE "loop"
    /\ steps' = steps + 1
    /\ UNCHANGED <<c_raw, max_chars, overlap, text>>
    /\ UNCHANGED <<container, index, ingestVars, botVars>>


\* ------------------------------------------------- the blob container
\* A blob: its name and what its bytes hold.  A PDF page is what
\* page.extract_text() returns for it (a text, or None).
Lower(ext) == IF ext = ".XLS" THEN ".xls" ELSE ext
NonePage == [has_text |-> FALSE, text |-> <<>>]
BlankPage == [has_text |-> TRUE, text |-> <<" ">>]
TextPage == [has_text |-> TRUE, text |-> <<"a", "b">>]
Sheet(n) == [kind |-> "sheet", rows |-> n, pages |-> <<>>]
Pdf(p) == [kind |-> "pdf", rows |-> 0, pages |-> p]
Garbage == [kind |-> "garbage", rows |-> 0, pages |-> <<>>]
File(ext, body) == [ext |-> ext, body |-> body]
PdfFiles == {File(".pdf", Pdf(<<NonePage, BlankPage>>)), File(".pdf", Pdf(<<TextPage>>))}
\* Small files: sheets of one and two rows, PDFs, unreadable files, a text file.
SmallFiles ==
    {File(".xlsx", Sheet(2)), File(".XLS", Sheet(1)),
     File(".xlsx", Garbage), File(".pdf", Garbage), File(".txt", Garbage)}
    \cup PdfFiles
\* Large files: sheets around the batch size.
LargeFiles ==
    {File(".xlsx", Sheet(1)), File(".XLS", Sheet(batch_size)),
     File(".xlsx", Sheet(2 * batch_size + 50)), File(".txt", Garbage)}
    \cup PdfFiles
\* The blobs of a container are named by their position, so names are unique.
Container(fs) == [j \in DOMAIN fs |-> [stem |-> j, ext |-> fs[j].ext, body |-> fs[j].body]]
Containers(files) == {Container(fs) : fs \in SeqsUpTo(files, MaxBlobs)}
BlobName(b) == "kb" \o ToString(b.stem) \o b.ext

\* pd.read_excel / PdfReader raise on bytes that are not a workbook / a PDF.
ReadExcelOk(b) == b.body.kind = "sheet"
PdfReaderOk(b) == b.body.kind = "pdf"
IsExcelName(b) == Lower(b.ext) \in {".xlsx", ".xls"}
IsPdfName(b) == Lower(b.ext) = ".pdf"

\* Row r of a sheet as line 69 renders it.  The sheets modelled have one
\* column, "row", holding the row number.
RowText(r) == "row:" \o ToString(r)

\* extract_from_excel (lines 65-76): one record per row, page 0.
extract_from_excel(b) ==
    [r \in 1..b.body.rows |->
        [source_type |-> "excel", source_file |-> BlobName(b), page |-> 0,
         content |-> RowText(r)]]

\* page.extract_text() or ""
PageText(p) == IF p.has_text THEN p.text ELSE <<>>

\* --------------------------------------------------- the search index
\* get_embedding of a content, kept abstract (deterministic).
Embedding(content) == "vec(" \o content \o ")"

\* Mutant of SearchDoc: the id is derived from the record, not drawn afresh.
SearchDocContentId(d, k, now) ==
    [id |-> d.source_file \o "#" \o ToString(d.page) \o "#" \o d.content,
     content |-> d.content, source_type |-> d.source_type,
     source_file |-> d.source_file, page |-> d.page,
     contentVector |-> Embedding(d.content), ingested_at |-> now]

\* Lines 115-123: the search document of record d, with the k-th uuid4().
SearchDoc(d, k, now) ==
    [id |-> "uuid-" \o ToString(k), content |-> d.content, source_type |-> d.source_type,
     source_file |-> d.source_file, page |-> d.page,
     contentVector |-> Embedding(d.content), ingested_at |-> now]

\* upload_documents: the "upload" action inserts a document or replaces the
\* one with the same key; only the documents the index accepts are written.
Accepted(batch, flags) == {batch[j] : j \in {k \in 1..Len(batch) : flags[k]}}
Upsert(idx, new) ==
    LET ids == {d.id : d \in new}
    IN  {r \in idx : r.id \notin ids} \cup new

\* The per-record results the index may give for a batch of n documents.
AllOk(n) == [j \in 1..n |-> TRUE]
RejectResults(n) == {[j \in 1..n |-> j # 1], [j \in 1..n |-> j # n], [j \in 1..n |-> FALSE]}

CountTrue(flags) == Cardinality({j \in 1..Len(flags) : flags[j]})

\* Mutant of Batch: the slice ends one record early.
BatchShort(sd, k) == Slice(sd, k, k + batch_size - 1)

\* search_docs[i:i+batch_size]
Batch(sd, k) == Slice(sd, k, k + batch_size)

IngestIdle ==
    /\ i_pc = "idle" /\ i_err = "none" /\ i_blob = 1 /\ i_page = 1 /\ docs = <<>>
    /\ all_docs = <<>> /\ search_docs = <<>> /\ i_off = 0 /\ uploads = <<>>
    /\ results = <<>> /\ printed = <<>> /\ response = [status |-> "none", total_chunks |-> 0]
    /\ uuid_count = 0 /\ runs = 0 /\ rejects = 0 /\ aborts = 0 /\ index0 = {}

chunkStay == UNCHANGED <<chunkVars, botVars>>

\* POST /ingest arrives: ingest_all_blobs() starts (lines 94-97).
StartRun ==
    /\ i_pc \in {"idle", "done", "raised"}
    /\ runs < MaxRuns
    /\ i_pc' = "blobs" /\ i_err' = "none" /\ i_blob' = 1 /\ i_page' = 1
    /\ docs' = <<>> /\ all_docs' = <<>> /\ search_docs' = <<>> /\ i_off' = 0
    /\ uploads' = <<>> /\ results' = <<>> /\ printed' = <<>>
    /\ response' = [status |-> "none", total_chunks |-> 0]
    /\ runs' = runs + 1
    /\ index0' = index
    /\ UNCHANGED <<container, index, uuid_count, rejects, aborts>>
    /\ chunkStay

Raise(what) ==
    /\ i_pc' = "raised" /\ i_err' = what /\ aborts' = aborts + 1

\* Lines 98-104: a blob named *.xlsx / *.xls; read_excel raising ends the run.
IngestExcel ==
    /\ i_pc = "blobs" /\ i_blob <= Len(container)
    /\ LET b == container[i_blob]
       IN  /\ IsExcelName(b)
           /\ IF ReadExcelOk(b)
              THEN /\ all_docs' = all_docs \o extract_from_excel(b)
                   /\ i_blob' = i_blob + 1
                   /\ UNCHANGED <<i_pc, i_err, aborts>>
              ELSE /\ Raise("extract")
                   /\ UNCHANGED <<all_docs, i_blob>>
    /\ UNCHANGED <<container, index, i_page, docs, search_docs, i_off, uploads, results,
                   printed, response, uuid_count, runs, rejects, index0>>
    /\ chunkStay

\* Lines 105-106, 79-80: a blob named *.pdf is opened; PdfReader raising ends the run.
IngestPdf ==
    /\ i_pc = "blobs" /\ i_blob <= Len(container)
    /\ LET b == container[i_blob]
       IN  /\ ~IsExcelName(b) /\ IsPdfName(b)
           /\ IF PdfReaderOk(b)
              THEN /\ i_pc' = "pdf" /\ i_page' = 1 /\ docs' = <<>>
                   /\ UNCHANGED <<i_err, aborts>>
              ELSE /\ Raise("extract")
                   /\ UNCHANGED <<i_page, docs>>
    /\ UNCHANGED <<container, index, i_blob, all_docs, search_docs, i_off, uploads, results,
                   printed, response, uuid_count, runs, rejects, index0>>
    /\ chunkStay

\* Lines 103-106: any other name is skipped.
SkipBlob ==
    /\ i_pc = "blobs" /\ i_blob <= Len(container)
    /\ LET b == container[i_blob] IN ~IsExcelName(b) /\ ~IsPdfName(b)
    /\ i_blob' = i_blob + 1
    /\ UNCHANGED <<container, index, i_pc, i_err, i_page, docs, all_docs, search_docs, i_off,
                   uploads, results, printed, response, uuid_count, runs, rejects,
                   aborts, index0>>
    /\ chunkStay

\* Lines 81-83: the next page's text goes to chunk_text with the defaults.
PdfPage ==
    /\ i_pc = "pdf"
    /\ i_page <= Len(container[i_blob].body.pages)
    /\ ChunkCall(PageText(container[i_blob].body.pages[i_page]),
                 DEFAULT_MAX_CHARS, DEFAULT_OVERLAP)
    /\ i_pc' = "chunking"
    /\ UNCHANGED <<container, index, i_err, i_blob, i_page, docs, all_docs, search_docs, i_off,
                   uploads, results, printed, response, uuid_count, runs, rejects,
                   aborts, index0>>
    /\ UNCHANGED botVars

\* Lines 83-89: chunk_text returned; one record per chunk, then the next page.
PdfChunks ==
    /\ i_pc = "chunking" /\ c_pc = "done"
    /\ docs' = docs \o [k \in 1..Len(chunks) |->
                  [source_type |-> "pdf", source_file |-> BlobName(container[i_blob]),
                   page |-> i_page, content |-> Text(chunks[k])]]
    /\ i_page' = i_page + 1
    /\ i_pc' = "pdf"
    /\ c_pc' = "idle"
    /\ UNCHANGED <<c_raw, max_chars, overlap, text, start, end, chunks, steps>>
    /\ UNCHANGED <<container, index, i_err, i_blob, all_docs, search_docs, i_off, uploads,
                   results, printed, response, uuid_count, runs, rejects, aborts, index0>>
    /\ UNCHANGED botVars

\* Lines 90, 106: extract_from_pdf returns, its records join all_docs.
PdfDone ==
    /\ i_pc = "pdf"
    /\ i_page > Len(container[i_blob].body.pages)
    /\ all_docs' = all_docs \o docs
    /\ docs' = <<>>
    /\ i_blob' = i_blob + 1
    /\ i_pc' = "blobs"
    /\ UNCHANGED <<container, index, i_err, i_page, search_docs, i_off, uploads, results,
                   printed, response, uuid_count, runs, rejects, aborts, index0>>
    /\ chunkStay

\* Lines 110-123: every record is embedded and given a fresh id; a failing
\* get_embedding call raises out of ingest_all_blobs before anything is uploaded
\* (the ids drawn before the failing call are dropped with search_docs).
EmbedAll ==
    /\ i_pc = "blobs" /\ i_blob > Len(container)
    /\ \/ /\ search_docs' = [k \in 1..Len(all_docs) |->
                                SearchDoc(all_docs[k], uuid_count + k, runs)]
          /\ uuid_count' = uuid_count + Len(all_docs)
          /\ i_pc' = "upload" /\ i_off' = 0
          /\ UNCHANGED <<i_err, aborts>>
       \/ /\ all_docs # <<>>
          /\ Raise("embed")
          /\ UNCHANGED <<search_docs, uuid_count, i_off>>
    /\ UNCHANGED <<container, index, i_blob, i_page, docs, all_docs, uploads, results,
                   printed, response, runs, rejects, index0>>
    /\ chunkStay

\* Lines 127-130: one pass of the upload loop.  The index returns one result
\* per document; upload_documents may also raise.
UploadBatch ==
    /\ i_pc = "upload" /\ i_off < Len(search_docs)
    /\ LET batch == Batch(search_docs, i_off)
       IN  \/ \E flags \in {AllOk(Len(batch))} \cup
                          (IF rejects < MaxRejects THEN RejectResults(Len(batch)) ELSE {}) :
                 /\ index' = Upsert(index, Accepted(batch, flags))
                 /\ uploads' = Append(uploads, batch)
                 /\ results' = Append(results, flags)
                 /\ printed' = Append(printed, CountTrue(flags))
                 /\ rejects' = IF flags = AllOk(Len(batch)) THEN rejects ELSE rejects + 1
                 /\ i_off' = i_off + batch_size
                 /\ UNCHANGED <<i_pc, i_err, aborts>>
           \/ /\ Raise("upload")
              /\ UNCHANGED <<index, uploads, results, printed, rejects, i_off>>
    /\ UNCHANGED <<container, i_blob, i_page, docs, all_docs, search_docs, response,
                   uuid_count, runs, index0>>
    /\ chunkStay

\* Line 132 and app.py:131-132: the summary is returned and sent as the response.
Return ==
    /\ i_pc = "upload" /\ i_off >= Len(search_docs)
    /\ response' = [status |-> "success", total_chunks |-> Len(search_docs)]
    /\ i_pc' = "done"
    /\ UNCHANGED <<container, index, i_err, i_blob, i_page, docs, all_docs, search_docs, i_off,
                   uploads, results, printed, uuid_count, runs, rejects, aborts, index0>>
    /\ chunkStay

\* ------------------------------------------------------------ app.py
PROMPT_MSG == "Please ask a question based on the uploaded Excel/PDF files."
\* Line 102 (the pin glyph before "Sources:" is left out)
SOURCES_HEADER == "\n\nSources:\n"

\* The inbound activities: other activity types, and messages whose text is
\* None, empty, whitespace only, or a question (bare or padded).
NoText == [has_text |-> FALSE, text |-> <<>>]
SomeText(t) == [has_text |-> TRUE, text |-> t]
Activities ==
    {[type |-> "conversationUpdate", text |-> NoText]}
    \cup {[type |-> "message", text |-> t] :
            t \in {NoText, SomeText(<<>>), SomeText(<<" ", "\n">>),
                   SomeText(<<"revenue?">>), SomeText(<<" ", "revenue?", "\n">>)}}

\* What the chat model may answer (resp.choices[0].message.content).
ChatReplies == {<<"5M">>, <<" ", "Not available in the uploaded Excel/PDF data.", "\n">>}

\* Mutant of Question: the text is not stripped.
QuestionNoStrip(a) == IF a.text.has_text THEN a.text.text ELSE <<>>

\* Line 108: (turn_context.activity.text or "").strip()
Question(a) == Strip(IF a.text.has_text THEN a.text.text ELSE <<>>)

\* The documents of a knowledge base of n documents: PDF pages and sheet rows.
KbDoc(n) ==
    SearchDoc(IF n % 2 = 1
              THEN [source_type |-> "pdf", source_file |-> "report.pdf", page |-> n,
                    content |-> "chunk" \o ToString(n)]
              ELSE [source_type |-> "excel", source_file |-> "sales.xlsx", page |-> 0,
                    content |-> RowText(n)],
              n, 0)
KnowledgeBases == {{KbDoc(n) : n \in 1..m} : m \in 0..MaxDocs}

\* Lines 49-57: a vector query for the k nearest documents; the ranking is the
\* index's, so any order of any at most k distinct documents may come back,
\* with the selected fields only.
Selected(d) == [content |-> d.content, source_type |-> d.source_type,
                source_file |-> d.source_file, page |-> d.page]
Rankings(idx, k) ==
    {[j \in DOMAIN r |-> Selected(r[j])] :
        r \in {q \in SeqsUpTo(idx, Min(k, Cardinality(idx))) :
                  \A j, l \in DOMAIN q : j # l => q[j] # q[l]}}

\* Lines 59-68
ContextsOf(rs) == [j \in DOMAIN rs |-> rs[j].content]
SourcesOf(rs) == [j \in DOMAIN rs |->
                    [source_type |-> rs[j].source_type, source_file |-> rs[j].source_file,
                     page |-> rs[j].page]]

\* "sep".join(lines)
RECURSIVE Join(_, _)
Join(lines, sep) ==
    IF lines = <<>> THEN ""
    ELSE IF Len(lines) = 1 THEN lines[1]
    ELSE lines[1] \o sep \o Join(Tail(lines), sep)

\* Line 72
ContextText(cs) == Join([j \in DOMAIN cs |-> "[CTX" \o ToString(j) \o "] " \o cs[j]], "\n\n")

\* Lines 74-85 (the instructions of the prompt abridged)
Prompt(cs, q) ==
    "Answer ONLY using the context below.\nContext:\n" \o ContextText(cs)
    \o "\n\nQuestion: " \o Text(q) \o "\n"

\* Mutant of FooterSources: the sources are not cut to the first three.
FooterSourcesAll(ss) == ss

\* Line 96: sources[:3]
FooterSources(ss) == Slice(ss, 0, FOOTER_SOURCES)

\* Lines 97-100
SourceLine(s) ==
    IF s.source_type = "pdf"
    THEN "- " \o s.source_file \o " (page " \o ToString(s.page) \o ")"
    ELSE "- " \o s.source_file \o " (excel row/chunk)"

\* Lines 95-100
SrcLines(ss) == [j \in DOMAIN FooterSources(ss) |-> SourceLine(FooterSources(ss)[j])]

\* Lines 92, 101-102
FinalAnswer(reply, lines) ==
    Text(Strip(reply)) \o (IF lines # <<>> THEN SOURCES_HEADER \o Join(lines, "\n") ELSE "")

BotIdle ==
    /\ b_pc = "idle" /\ b_err = "none"
    /\ activity = [type |-> "none", text |-> NoText]
    /\ question = <<>> /\ hits = <<>> /\ contexts = <<>> /\ sources = <<>> /\ prompt = ""
    /\ src_lines = <<>> /\ final_answer = "" /\ sent = <<>> /\ http_status = 0
    /\ embed_calls = 0 /\ search_calls = 0 /\ chat_calls = 0 /\ msgs = 0

botStay == UNCHANGED <<chunkVars, container, index, ingestVars>>

\* Lines 117-126: a request arrives at /api/messages and reaches aux_func.
Receive ==
    /\ b_pc \in {"idle", "done", "raised"}
    /\ msgs < MaxMsgs
    /\ \E a \in Activities : activity' = a
    /\ b_pc' = "recv" /\ b_err' = "none"
    /\ question' = <<>> /\ hits' = <<>> /\ contexts' = <<>> /\ sources' = <<>>
    /\ prompt' = "" /\ src_lines' = <<>> /\ final_answer' = "" /\ sent' = <<>>
    /\ http_status' = 0
    /\ embed_calls' = 0 /\ search_calls' = 0 /\ chat_calls' = 0
    /\ msgs' = msgs + 1
    /\ botStay

\* Lines 123, 127: an activity that is no message is not handled.
IgnoreActivity ==
    /\ b_pc = "recv" /\ activity.type # "message"
    /\ b_pc' = "done" /\ http_status' = 201
    /\ UNCHANGED <<b_err, activity, question, hits, contexts, sources, prompt, src_lines,
                   final_answer, sent, embed_calls, search_calls, chat_calls, msgs>>
    /\ botStay

\* Lines 108-111, 127: an empty question is answered with the prompting message.
AskForQuestion ==
    /\ b_pc = "recv" /\ activity.type = "message"
    /\ Question(activity) = <<>>
    /\ question' = Question(activity)
    /\ sent' = Append(sent, PROMPT_MSG)
    /\ b_pc' = "done" /\ http_status' = 201
    /\ UNCHANGED <<b_err, activity, hits, contexts, sources, prompt, src_lines,
                   final_answer, embed_calls, search_calls, chat_calls, msgs>>
    /\ botStay

\* Lines 108-109, 113, 71: a question goes to answer_with_rag and search_top_k.
StartAnswer ==
    /\ b_pc = "recv" /\ activity.type = "message"
    /\ Question(activity) # <<>>
    /\ question' = Question(activity)
    /\ b_pc' = "embed"
    /\ UNCHANGED <<b_err, activity, hits, contexts, sources, prompt, src_lines,
                   final_answer, sent, http_status, embed_calls, search_calls,
                   chat_calls, msgs>>
    /\ botStay

\* An exception leaves on_message_activity, aux_func and messages: nothing
\* is sent to the user and the request fails.
BotRaise(what) ==
    /\ b_pc' = "raised" /\ b_err' = what /\ http_status' = 500

\* Lines 47, 42-44: the question is embedded.
EmbedQuestion ==
    /\ b_pc = "embed"
    /\ embed_calls' = embed_calls + 1
    /\ \/ b_pc' = "search" /\ UNCHANGED <<b_err, http_status>>
       \/ BotRaise("embed")
    /\ UNCHANGED <<activity, question, hits, contexts, sources, prompt, src_lines,
                   final_answer, sent, search_calls, chat_calls, msgs>>
    /\ botStay

\* Lines 49-68: the index is queried, contexts and sources are collected.
SearchIndex ==
    /\ b_pc = "search"
    /\ search_calls' = search_calls + 1
    /\ \/ \E rs \in Rankings(index, TOP_K) :
             /\ hits' = rs
             /\ contexts' = ContextsOf(rs)
             /\ sources' = SourcesOf(rs)
             /\ b_pc' = "chat"
             /\ UNCHANGED <<b_err, http_status>>
       \/ BotRaise("search") /\ UNCHANGED <<hits, contexts, sources>>
    /\ UNCHANGED <<activity, question, prompt, src_lines, final_answer, sent,
                   embed_calls, chat_calls, msgs>>
    /\ botStay

\* Lines 72-104: the chat model is called, the footer is appended.
ChatCompletion ==
    /\ b_pc = "chat"
    /\ prompt' = Prompt(contexts, question)
    /\ chat_calls' = chat_calls + 1
    /\ \/ \E reply \in ChatReplies :
             /\ src_lines' = SrcLines(sources)
             /\ final_answer' = FinalAnswer(reply, SrcLines(sources))
             /\ b_pc' = "reply"
             /\ UNCHANGED <<b_err, http_status>>
       \/ BotRaise("chat") /\ UNCHANGED <<src_lines, final_answer>>
    /\ UNCHANGED <<activity, question, hits, contexts, sources, sent, embed_calls,
                   search_calls, msgs>>
    /\ botStay

\* Lines 114, 127: the answer is sent.
SendAnswer ==
    /\ b_pc = "reply"
    /\ sent' = Append(sent, final_answer)
    /\ b_pc' = "done" /\ http_status' = 201
    /\ UNCHANGED <<b_err, activity, question, hits, contexts, sources, prompt, src_lines,
                   final_answer, embed_calls, search_calls, chat_calls, msgs>>
    /\ botStay

\* ------------------------------------------------------ specifications
InitIngest ==
    /\ ChunkIdle
    /\ container \in Containers(SmallFiles)
    /\ index = {}
    /\ IngestIdle
    /\ BotIdle

NextIngest ==
    \/ StartRun \/ IngestExcel \/ IngestPdf \/ SkipBlob
    \/ PdfPage \/ ChunkEnter \/ ChunkLoop \/ PdfChunks \/ PdfDone
    \/ EmbedAll \/ UploadBatch \/ Return

\* The service: POST /ingest called again and again over an unchanged container.
SpecIngest == InitIngest /\ [][NextIngest]_vars

\* One run of ingest_all_blobs over a container of large files, from its
\* first line on, against an empty index.
InitRun ==
    /\ ChunkIdle
    /\ container \in Containers(LargeFiles)
    /\ index = {}
    /\ i_pc = "blobs" /\ i_err = "none" /\ i_blob = 1 /\ i_page = 1 /\ docs = <<>>
    /\ all_docs = <<>> /\ search_docs = <<>> /\ i_off = 0 /\ uploads = <<>>
    /\ results = <<>> /\ printed = <<>> /\ response = [status |-> "none", total_chunks |-> 0]
    /\ uuid_count = 0 /\ runs = 1 /\ rejects = 0 /\ aborts = 0 /\ index0 = {}
    /\ BotIdle

NextRun ==
    \/ IngestExcel \/ IngestPdf \/ SkipBlob
    \/ PdfPage \/ ChunkEnter \/ ChunkLoop \/ PdfChunks \/ PdfDone
    \/ EmbedAll \/ UploadBatch \/ Return

SpecRun == InitRun /\ [][NextRun]_vars

InitBot ==
    /\ ChunkIdle
    /\ container = <<>>
    /\ index \in KnowledgeBases
    /\ IngestIdle
    /\ BotIdle

NextBot ==
    \/ Receive \/ IgnoreActivity \/ AskForQuestion \/ StartAnswer
    \/ EmbedQuestion \/ SearchIndex \/ ChatCompletion \/ SendAnswer

SpecBot == InitBot /\ [][NextBot]_vars

InitChunk ==
    /\ \E c \in ChunkCalls :
          /\ c_pc = "call" /\ c_raw = c[1] /\ max_chars = c[2][1] /\ overlap = c[2][2]
    /\ text = <<>> /\ start = 0 /\ end = 0 /\ chunks = <<>> /\ steps = 0
    /\ container = <<>> /\ index = {}
    /\ IngestIdle
    /\ BotIdle

NextChunk == ChunkEnter \/ ChunkLoop

SpecChunk == InitChunk /\ [][NextChunk]_vars

\* -------------------------------------------------------------- claims
\* ceil(a / b)
CeilDiv(a, b) == (a + b - 1) \div b
RECURSIVE Sum(_)
Sum(ns) == IF ns = <<>> THEN 0 ELSE Head(ns) + Sum(Tail(ns))
RECURSIVE Concat(_)
Concat(ss) == IF ss = <<>> THEN <<>> ELSE Head(ss) \o Concat(Tail(ss))
Ids(ds) == {d.id : d \in ds}
Range(f) == {f[x] : x \in DOMAIN f}

\* C1: chunk_text terminates for every text and every 0 <= overlap < max_chars:
\* once a chunk reaching the end of the text has been emitted the loop has
\* stopped (no repeated final chunk, no further pass), and with the defaults
\* 1000 / 150 the loop runs at most ceil(L/850)+1 passes on a trimmed text of
\* length L.  (The claim as stated; the code violates it.)
C1_ChunkTextTerminates ==
    /\ (c_pc = "loop" /\ steps > 0) => end < Len(text)
    /\ (c_pc \in {"loop", "done"} /\ <<max_chars, overlap>> = DefaultParams)
          => steps <= CeilDiv(Len(text), 850) + 1

\* C2: for an input whose trimmed form is non-empty and shorter than max_chars,
\* chunk_text builds exactly one chunk and returns it, and that chunk is the
\* trimmed input.  (The claim as stated; the code violates it.)
C2_ShortInputOneChunk ==
    (/\ c_pc \in {"loop", "done"}
     /\ Strip(c_raw) # <<>>
     /\ Len(Strip(c_raw)) < max_chars)
    => /\ Len(chunks) <= 1
       /\ c_pc = "done" => chunks = <<Strip(c_raw)>>

\* A message whose text is None, empty or whitespace only.
IsBlankMessage(a) ==
    /\ a.type = "message"
    /\ a.text.has_text => \A j \in DOMAIN a.text.text : a.text.text[j] \in {" ", "\n"}

\* C3: while and after a message with empty or whitespace-only text is
\* handled, no embedding call, no index query and no chat-model call is made,
\* the handler does not raise, and it ends having sent exactly the fixed
\* prompting message.
C3_BlankQuestionPrompted ==
    (b_pc # "idle" /\ IsBlankMessage(activity))
    => /\ embed_calls = 0 /\ search_calls = 0 /\ chat_calls = 0
       /\ b_pc \in {"recv", "done"}
       /\ b_pc = "recv" => sent = <<>>
       /\ b_pc = "done" => sent = <<PROMPT_MSG>> /\ http_status = 201

\* C3's case: a whitespace-only message has been answered with the prompt.
C3_Witness ==
    /\ b_pc = "done"
    /\ activity = [type |-> "message", text |-> SomeText(<<" ", "\n">>)]
    /\ sent = <<PROMPT_MSG>>

\* A blob whose name selects an extractor that cannot parse its bytes.
Unparsable(b) ==
    \/ IsExcelName(b) /\ ~ReadExcelOk(b)
    \/ ~IsExcelName(b) /\ IsPdfName(b) /\ ~PdfReaderOk(b)

\* C4: a blob that cannot be parsed is skipped and the run continues: over a
\* container holding such a blob the run is never aborted by the extraction.
\* (The claim as stated; the code violates it.)
C4_UnparsableBlobSkipped ==
    (\E j \in DOMAIN container : Unparsable(container[j]))
    => ~(i_pc = "raised" /\ i_err = "extract")

\* C5: when retrieval returned zero results, no chat-model call is made and
\* the answer sent is the fixed fallback string.  (The claim as stated; the
\* code violates it.)
C5_NoResultsFallback ==
    (search_calls > 0 /\ b_err = "none" /\ hits = <<>>)
    => /\ chat_calls = 0
       /\ b_pc = "done" => sent = <<"Not available in uploaded data">>

\* C6: whatever fails while a non-empty question is answered, the handling of
\* the message ends with exactly one reply sent to the user.  (The claim as
\* stated; the code violates it.)
C6_FailureStillReplies ==
    (/\ activity.type = "message"
     /\ ~IsBlankMessage(activity)
     /\ b_pc \in {"done", "raised"})
    => Len(sent) = 1

\* C7: the summary POST /ingest returns counts the records the index
\* accepted, and is no plain success when the index rejected some.  (The
\* claim as stated; the code violates it.)
C7_PartialFailureSurfaced ==
    i_pc = "done"
    => /\ response.total_chunks = Sum([j \in DOMAIN results |-> CountTrue(results[j])])
       /\ (\E j \in DOMAIN results : \E k \in DOMAIN results[j] : ~results[j][k])
             => response.status # "success"

\* C8: the upload calls made so far each carry between 1 and 200 records,
\* all but the last made carry exactly 200, and together, in call order, they
\* are a prefix of the record sequence; when the run returns there have been
\* exactly ceil(N/200) calls and together they are the whole sequence.
C8_BatchesOf200 ==
    /\ \A j \in DOMAIN uploads : Len(uploads[j]) \in 1..200
    /\ \A j \in DOMAIN uploads : j < Len(uploads) => Len(uploads[j]) = 200
    /\ Concat(uploads) = SubSeq(search_docs, 1, Len(Concat(uploads)))
    /\ i_pc = "done"
          => /\ Len(uploads) = CeilDiv(Len(search_docs), 200)
             /\ Concat(uploads) = search_docs

\* C8's case: 450 records have been uploaded in batches of 200, 200 and 50.
C8_Witness ==
    /\ i_pc = "done"
    /\ Len(search_docs) = 450
    /\ [j \in DOMAIN uploads |-> Len(uploads[j])] = <<200, 200, 50>>

\* How an answer's footer line reads for a retrieved document, with the
\* label given for a document that is no PDF page.
FooterLine(h, label) ==
    IF h.source_type = "pdf"
    THEN "- " \o h.source_file \o " (page " \o ToString(h.page) \o ")"
    ELSE "- " \o h.source_file \o label
FooterFollows(label) ==
    (b_pc \in {"reply", "done"} /\ chat_calls > 0)
    => /\ Len(src_lines) = Min(3, Len(hits))
       /\ \A j \in DOMAIN src_lines : src_lines[j] = FooterLine(hits[j], label)

\* C9 as stated: a spreadsheet source renders as "filename (excel)".
C9_FooterAsClaimed == FooterFollows(" (excel)")

\* C9, amended: the footer lines are built from the first 3 retrieved
\* sources at most, in the index's ranking order; a pdf source renders as
\* "filename (page N)", every other source as "filename (excel row/chunk)";
\* the lines follow the answer under the sources header.
C9_FooterTop3 ==
    /\ FooterFollows(" (excel row/chunk)")
    /\ (b_pc \in {"reply", "done"} /\ chat_calls > 0 /\ src_lines # <<>>)
          => \E body \in {Text(Strip(r)) : r \in ChatReplies} :
                final_answer = body \o SOURCES_HEADER \o Join(src_lines, "\n")

\* C9's case: five documents retrieved, a sheet row first and a PDF page
\* second, three footer lines sent.
C9_Witness ==
    /\ b_pc = "done"
    /\ Len(hits) = 5 /\ Len(src_lines) = 3
    /\ hits[1].source_type = "excel" /\ hits[2].source_type = "pdf"
    /\ sent = <<final_answer>>

C10_State ==
    /\ index0 \subseteq index
    /\ i_pc \in {"upload", "done"} \/ (i_pc = "raised" /\ i_err = "upload")
          => /\ Cardinality(Ids(Range(search_docs))) = Len(search_docs)
             /\ Ids(Range(search_docs)) \cap Ids(index0) = {}
    /\ Cardinality(Ids(index)) = Cardinality(index)
    /\ i_pc = "done"
          => /\ Cardinality(index) = Cardinality(index0)
                  + Sum([j \in DOMAIN results |-> CountTrue(results[j])])
             /\ Cardinality(index) <= Cardinality(index0) + Len(search_docs)
    /\ (i_pc = "done" /\ rejects = 0 /\ aborts = 0)
          => Cardinality(index) = runs * Len(search_docs)

====
